---- MODULE Spec2Model ----
(***************************************************************************)
(* Model of scripts/generate.py: the AI daily digest generator.            *)
(*                                                                         *)
(* Strings are sequences of one-character strings, so that lower-casing,   *)
(* trimming, prefix tests and substring search are computed, not assumed.  *)
(* Scores are integers in units of 1/180 (2.2 = 396, 1.4 = 252, 0.4 = 72,  *)
(* 1.0 = 180, 0.6 = 108, 0.35 = 63, 1.2 = 216); with ages in whole hours   *)
(* the recency term 1.2 - age_h/36 is the integer 216 - 5*age_h.           *)
(* Timestamps are whole hours since the epoch.                             *)
(* Categories: "release" = 产品发布/模型更新, "opensource" = 开源/工具爆款,       *)
(* "funding" = 融资/商业, "research" = 研究/论文, "policy" = 监管/政策,          *)
(* "security" = 安全/事故.                                                   *)
(***************************************************************************)
EXTENDS Integers, Sequences, FiniteSets, TLC

VARIABLES
  pc,            \* position of main(): query, records, sort, subs, reddit, done,
                 \* exit_config (SystemExit), crashed (uncaught exception); of a single
                 \* call of a function: call, returned
  api_key,       \* os.environ BRAVE_API_KEY
  qi,            \* index of the current query in the flattened catalog
  remaining,     \* records of the current response not yet processed
  seen,          \* main: seen
  raw,           \* main: raw
  queries_run,   \* main: queries_run
  requests_sent, \* HTTP requests sent to the search provider
  score_calls,   \* number of calls of score_item
  last,          \* history: what the loop body did with the last record of the response
  rejected,      \* history: the urls of the records discarded as blocked or disallowed
  first_ok,      \* history: per url, the first record offered that passes the filter
  ingested,      \* history: raw as it was before raw.sort
  sub_list,      \* main: sub_list
  ri,            \* index of the next subreddit to fetch
  reddit,        \* main: reddit
  fetch_log,     \* history: the response each fetched subreddit got
  snapshot,      \* the JSON payload written, or NoSnapshot
  page,          \* the structure of the HTML page rendered, or NoPage
  fin,           \* the arguments of a single call of a function
  fout           \* the value that call returned

vars == <<pc, api_key, qi, remaining, seen, raw, queries_run, requests_sent,
          score_calls, last, rejected, first_ok, ingested, sub_list, ri, reddit, fetch_log,
          snapshot, page, fin, fout>>

-----------------------------------------------------------------------------
\* Fixed data of the program

\* CATEGORY_QUERIES: each category with the number of its queries, in dict order
CATEGORY_QUERIES ==
  << [cat |-> "release",    n |-> 6],
     [cat |-> "opensource", n |-> 5],
     [cat |-> "funding",    n |-> 3],
     [cat |-> "research",   n |-> 3],
     [cat |-> "policy",     n |-> 4],
     [cat |-> "security",   n |-> 4] >>

BLOCK_HOSTS ==
  {
    <<"y","o","u","t","u","b","e",".","c","o","m">>,
    <<"w","w","w",".","y","o","u","t","u","b","e",".","c","o","m">>,
    <<"y","o","u","t","u",".","b","e">>,
    <<"n","e","w","s",".","y","c","o","m","b","i","n","a","t","o","r",".","c","o","m">>,
    <<"r","e","d","d","i","t",".","c","o","m">>,
    <<"w","w","w",".","r","e","d","d","i","t",".","c","o","m">>
  }

PREFERRED_HOSTS ==
  {
    <<"r","e","u","t","e","r","s",".","c","o","m">>,
    <<"w","w","w",".","r","e","u","t","e","r","s",".","c","o","m">>,
    <<"f","t",".","c","o","m">>,
    <<"w","w","w",".","f","t",".","c","o","m">>,
    <<"b","l","o","o","m","b","e","r","g",".","c","o","m">>,
    <<"w","w","w",".","b","l","o","o","m","b","e","r","g",".","c","o","m">>,
    <<"c","n","b","c",".","c","o","m">>,
    <<"w","w","w",".","c","n","b","c",".","c","o","m">>,
    <<"t","e","c","h","c","r","u","n","c","h",".","c","o","m">>,
    <<"w","w","w",".","t","e","c","h","c","r","u","n","c","h",".","c","o","m">>,
    <<"t","h","e","v","e","r","g","e",".","c","o","m">>,
    <<"w","w","w",".","t","h","e","v","e","r","g","e",".","c","o","m">>,
    <<"w","i","r","e","d",".","c","o","m">>,
    <<"w","w","w",".","w","i","r","e","d",".","c","o","m">>,
    <<"n","y","t","i","m","e","s",".","c","o","m">>,
    <<"w","w","w",".","n","y","t","i","m","e","s",".","c","o","m">>,
    <<"w","s","j",".","c","o","m">>,
    <<"w","w","w",".","w","s","j",".","c","o","m">>,
    <<"o","p","e","n","a","i",".","c","o","m">>,
    <<"w","w","w",".","o","p","e","n","a","i",".","c","o","m">>,
    <<"a","n","t","h","r","o","p","i","c",".","c","o","m">>,
    <<"w","w","w",".","a","n","t","h","r","o","p","i","c",".","c","o","m">>,
    <<"b","l","o","g",".","g","o","o","g","l","e">>,
    <<"a","i",".","g","o","o","g","l","e">>,
    <<"d","e","e","p","m","i","n","d",".","g","o","o","g","l","e">>,
    <<"w","w","w",".","n","v","i","d","i","a",".","c","o","m">>,
    <<"3","6","k","r",".","c","o","m">>,
    <<"w","w","w",".","3","6","k","r",".","c","o","m">>,
    <<"j","i","q","i","z","h","i","x","i","n",".","c","o","m">>,
    <<"w","w","w",".","j","i","q","i","z","h","i","x","i","n",".","c","o","m">>,
    <<"q","b","i","t","a","i",".","c","o","m">>,
    <<"w","w","w",".","q","b","i","t","a","i",".","c","o","m">>,
    <<"l","e","i","p","h","o","n","e",".","c","o","m">>,
    <<"w","w","w",".","l","e","i","p","h","o","n","e",".","c","o","m">>,
    <<"t","m","t","p","o","s","t",".","c","o","m">>,
    <<"w","w","w",".","t","m","t","p","o","s","t",".","c","o","m">>,
    <<"i","t","h","o","m","e",".","c","o","m">>,
    <<"w","w","w",".","i","t","h","o","m","e",".","c","o","m">>,
    <<"x","i","n","h","u","a","n","e","t",".","c","o","m">>,
    <<"w","w","w",".","x","i","n","h","u","a","n","e","t",".","c","o","m">>
  }

COMMUNITY_HOSTS ==
  {
    <<"g","i","t","h","u","b",".","c","o","m">>,
    <<"w","w","w",".","g","i","t","h","u","b",".","c","o","m">>,
    <<"h","u","g","g","i","n","g","f","a","c","e",".","c","o">>,
    <<"w","w","w",".","p","r","o","d","u","c","t","h","u","n","t",".","c","o","m">>,
    <<"p","r","o","d","u","c","t","h","u","n","t",".","c","o","m">>
  }

EXTRA_ALLOW_HOSTS ==
  {
    <<"a","r","x","i","v",".","o","r","g">>,
    <<"w","w","w",".","a","r","x","i","v",".","o","r","g">>,
    <<"s","u","b","s","t","a","c","k",".","c","o","m">>,
    <<"w","w","w",".","s","u","b","s","t","a","c","k",".","c","o","m">>
  }

SPAM_MARKERS ==
  <<
    <<"s","p","o","n","s","o","r","e","d">>,
    <<"p","r","e","s","s"," ","r","e","l","e","a","s","e">>,
    <<"w","i","k","i","p","e","d","i","a">>
  >>

LAUNCH_MARKERS ==
  <<
    <<"l","a","u","n","c","h">>,
    <<"r","e","l","e","a","s","e">>,
    <<"a","n","n","o","u","n","c","e">>,
    <<"i","n","t","r","o","d","u","c">>,
    <<"b","e","t","a">>
  >>

SECURITY_MARKERS ==
  <<
    <<"s","e","c","u","r","i","t","y">>,
    <<"l","e","a","k">>,
    <<"b","r","e","a","c","h">>,
    <<"b","a","n">>,
    <<"l","a","w","s","u","i","t">>,
    <<"v","u","l","n","e","r","a","b","i","l","i","t","y">>
  >>

-----------------------------------------------------------------------------
\* Strings

UPPER == <<"A","B","C","D","E","F","G","H","I","J","K","L","M",
           "N","O","P","Q","R","S","T","U","V","W","X","Y","Z">>

LOWER == <<"a","b","c","d","e","f","g","h","i","j","k","l","m",
           "n","o","p","q","r","s","t","u","v","w","x","y","z">>

WHITESPACE == {" ", "\t", "\n"}

LowerChar(c) ==
  IF \E i \in 1..Len(UPPER) : UPPER[i] = c
    THEN LOWER[CHOOSE i \in 1..Len(UPPER) : UPPER[i] = c]
    ELSE c

\* str.lower()
Lower(s) == [i \in 1..Len(s) |-> LowerChar(s[i])]

\* str.strip()
Strip(s) ==
  LET keep == {i \in 1..Len(s) : s[i] \notin WHITESPACE}
  IN  IF keep = {} THEN <<>>
      ELSE LET lo == CHOOSE i \in keep : \A j \in keep : i <= j
               hi == CHOOSE i \in keep : \A j \in keep : j <= i
           IN  SubSeq(s, lo, hi)

\* str.startswith(p)
StartsWith(s, p) == Len(s) >= Len(p) /\ SubSeq(s, 1, Len(p)) = p

\* m in s
Contains(s, m) ==
  \E i \in 1..(Len(s) - Len(m) + 1) : SubSeq(s, i, i + Len(m) - 1) = m

\* any(x in s for x in markers)
ContainsAny(s, markers) == \E k \in 1..Len(markers) : Contains(s, markers[k])

\* s[:n]
Take(s, n) == SubSeq(s, 1, IF Len(s) < n THEN Len(s) ELSE n)

\* the smallest index of s holding a member of cs, or 0
FirstIndexOf(s, cs) ==
  IF \E i \in 1..Len(s) : s[i] \in cs
    THEN CHOOSE i \in 1..Len(s) : s[i] \in cs /\ \A j \in 1..(i - 1) : s[j] \notin cs
    ELSE 0

-----------------------------------------------------------------------------
\* Host classifier

\* s up to, not including, index i; all of s when i = 0
CutAt(s, i) == IF i = 0 THEN s ELSE SubSeq(s, 1, i - 1)

\* s up to its first character that is in cs
UpTo(s, cs) == CutAt(s, FirstIndexOf(s, cs))

LETTERS == {UPPER[i] : i \in 1..Len(UPPER)} \cup {LOWER[i] : i \in 1..Len(LOWER)}

\* url without its "scheme:", c being the index of its first ":" (0: none)
AfterScheme(url, c) ==
  IF c > 1 /\ \A i \in 1..(c - 1) : url[i] \in LETTERS
    THEN SubSeq(url, c + 1, Len(url))
    ELSE url

\* the authority: what follows a leading "//" up to the first "/", "?" or "#"
Authority(rest) ==
  IF StartsWith(rest, <<"/","/">>)
    THEN UpTo(SubSeq(rest, 3, Len(rest)), {"/", "?", "#"})
    ELSE <<>>

\* hostname_from_item, lines 206-210: urllib.parse.urlparse(url).hostname or "",
\* the authority before a port, lower-cased. Userinfo ("user@") and bracketed
\* IPv6 literals are left out of the model.
UrlHostname(url) ==
  Lower(UpTo(Authority(AfterScheme(url, FirstIndexOf(url, {":"}))), {":"}))

\* item: a raw result record; meta_hostname is <<>> when meta_url or its hostname
\* is absent, not a string, or empty
hostname_from_item(item) ==
  IF item.meta_hostname # <<>> THEN item.meta_hostname ELSE UrlHostname(item.url)

is_blocked(host, title, desc) ==
  LET h == Lower(host)
  IN  IF h \in BLOCK_HOSTS THEN TRUE
      ELSE LET t == Lower(title \o <<" ">> \o desc)
           IN  ContainsAny(t, SPAM_MARKERS)

AllowSet == PREFERRED_HOSTS \cup COMMUNITY_HOSTS \cup EXTRA_ALLOW_HOSTS

WWW_DOT == <<"w","w","w",".">>

is_allowed(host) ==
  LET h == Lower(host)
  IN  IF h = <<>> THEN FALSE
      ELSE h \in AllowSet
           \/ (StartsWith(h, WWW_DOT) /\ SubSeq(h, 5, Len(h)) \in AllowSet)

-----------------------------------------------------------------------------
\* Timestamps and scoring

\* A published value: fmt "none" (None), "empty" (""), "bad" (a string that is no
\* ISO-8601 timestamp), or "iso" (an ISO-8601 string stating the local hour `hour`
\* with designator tz: "Z", "naive" (no offset) or "+08:00").
None == [fmt |-> "none", hour |-> 0, tz |-> ""]

UtcOffset(tz) == IF tz = "+08:00" THEN 8 ELSE 0

\* The POSIX timestamp in hours; 0 (the code's 0.0) when absent or unparsable
parse_ts(s) ==
  IF s.fmt \in {"none", "empty"} THEN 0
  ELSE IF s.fmt = "iso" THEN s.hour - UtcOffset(s.tz)
  ELSE 0

Max(a, b) == IF a >= b THEN a ELSE b

Min(a, b) == IF a <= b THEN a ELSE b

\* lines 243-249, h being the lower-cased host
HostTier(h) ==
  IF h \in PREFERRED_HOSTS THEN 396
  ELSE IF h \in COMMUNITY_HOSTS THEN 252
  ELSE IF h # <<>> THEN 72
  ELSE 0

\* lines 251-252
AddCategoryBoost(base, category) ==
  IF category \in {"release", "opensource"} THEN base + 180 ELSE base

\* lines 255-256, tl being the lower-cased title
AddLaunchBoost(base, tl) ==
  IF ContainsAny(tl, LAUNCH_MARKERS) THEN base + 108 ELSE base

\* A variant in which the security boost is an alternative to the launch boost
AddSecurityBoostExclusive(base, tl) ==
  IF ContainsAny(tl, SECURITY_MARKERS) /\ ~ContainsAny(tl, LAUNCH_MARKERS)
    THEN base + 63
    ELSE base

\* lines 257-258
AddSecurityBoost(base, tl) ==
  IF ContainsAny(tl, SECURITY_MARKERS) THEN base + 63 ELSE base

\* lines 260-263, ts being parse_ts(published) and clock time.time(), in hours
AddRecency(base, ts, clock) ==
  IF ts # 0
    THEN base + Max(0, 216 - Min(216, 5 * Max(0, clock - ts)))
    ELSE base

\* score_item, with time.time() = clock; the value is in units of 1/180
score_item(host, title, published, category, clock) ==
  AddRecency(
    AddSecurityBoost(
      AddLaunchBoost(
        AddCategoryBoost(HostTier(Lower(host)), category),
        Lower(title)),
      Lower(title)),
    parse_ts(published), clock)

\* round(float(x.score), 3), in thousandths: x/180 to the nearest 1/1000
\* (100*x is even, so no value lies halfway)
Round3(x) == (100 * x + 9) \div 18

-----------------------------------------------------------------------------
\* Bounds of the model

\* the most records one provider response holds
MaxRes == 2

\* the hour time.time() shows during the run
NowStart == 48

URL_OPENAI == <<"h","t","t","p","s",":","/","/","o","p","e","n","a","i",".","c","o","m","/","a">>

URL_OPENAI_PADDED == <<" ","h","t","t","p","s",":","/","/","o","p","e","n","a","i",".","c","o","m","/","a"," ">>

URL_BLOG == <<"h","t","t","p","s",":","/","/","w","w","w",".","b","l","o","g",".","g","o","o","g","l","e","/","b">>

URL_GITHUB == <<"h","t","t","p","s",":","/","/","g","i","t","h","u","b",".","c","o","m","/","c">>

URL_YOUTUBE == <<"h","t","t","p","s",":","/","/","y","o","u","t","u","b","e",".","c","o","m","/","e">>

UNKNOWN == <<"(","u","n","k","n","o","w","n",")">>

\* The raw result records the provider may return
RawPool ==
  {
    \* spam marker in the title: blocked
    [title |-> <<"S","p","o","n","s","o","r","e","d"," ","l","a","u","n","c","h">>, url |-> URL_OPENAI,
     description |-> <<>>, meta_hostname |-> <<"o","p","e","n","a","i",".","c","o","m">>,
     published |-> [fmt |-> "none", hour |-> 0, tz |-> ""]],
    \* padded title and url, mixed-case host hint, published now: admitted
    [title |-> <<" ","G","P","T"," ","L","a","u","n","c","h"," ">>, url |-> URL_OPENAI_PADDED,
     description |-> <<>>, meta_hostname |-> <<"O","p","e","n","A","I",".","c","o","m">>,
     published |-> [fmt |-> "iso", hour |-> NowStart, tz |-> "Z"]],
    \* same url, no host hint, published 40 hours before NowStart: admitted
    [title |-> <<"L","a","u","n","c","h"," ","v","2">>, url |-> URL_OPENAI,
     description |-> <<"d">>, meta_hostname |-> <<>>,
     published |-> [fmt |-> "iso", hour |-> NowStart - 32, tz |-> "+08:00"]],
    \* www form of a host listed bare only: admitted
    [title |-> <<"B","e","t","a">>, url |-> URL_BLOG,
     description |-> <<>>, meta_hostname |-> <<"W","W","W",".","B","l","o","g",".","G","o","o","g","l","e">>,
     published |-> [fmt |-> "none", hour |-> 0, tz |-> ""]],
    \* community host, published of a non-scalar type: admitted
    [title |-> <<"B","e","t","a">>, url |-> URL_GITHUB,
     description |-> <<>>, meta_hostname |-> <<>>,
     published |-> [fmt |-> "other", hour |-> 0, tz |-> ""]],
    \* host hint that is neither blocklisted nor allowed: disallowed
    [title |-> <<"N","e","w","s">>, url |-> URL_YOUTUBE,
     description |-> <<>>, meta_hostname |-> <<"m",".","y","o","u","t","u","b","e",".","c","o","m">>,
     published |-> [fmt |-> "bad", hour |-> 0, tz |-> ""]],
    \* whitespace title: skipped
    [title |-> <<" ">>, url |-> URL_OPENAI,
     description |-> <<>>, meta_hostname |-> <<"o","p","e","n","a","i",".","c","o","m">>,
     published |-> [fmt |-> "none", hour |-> 0, tz |-> ""]],
    \* blocklisted host, taken from the url: blocked
    [title |-> <<"V","i","d","e","o">>, url |-> URL_YOUTUBE,
     description |-> <<>>, meta_hostname |-> <<>>,
     published |-> [fmt |-> "empty", hour |-> 0, tz |-> ""]]
  }

-----------------------------------------------------------------------------
\* The run: main()

\* the category of each query, in catalog order
RECURSIVE Flatten(_)
Flatten(cq) ==
  IF cq = <<>> THEN <<>>
  ELSE [k \in 1..Head(cq).n |-> Head(cq).cat] \o Flatten(Tail(cq))

QueryCat == Flatten(CATEGORY_QUERIES)

NumQueries == Len(QueryCat)

\* the urls a record of RawPool can carry
Urls == {Strip(r.url) : r \in RawPool}

ApiKeys == {<<>>, <<" ">>, <<"k","1">>}

\* What one provider request can come to: an HTTP error status, a network error or
\* timeout, a body that is no JSON, or a JSON object, with or without "web.results"
BraveResponses ==
  {[kind |-> k, web |-> FALSE, n |-> 0] : k \in {"http_error", "url_error", "bad_json", "json"}}
  \cup {[kind |-> "json", web |-> TRUE, n |-> n] : n \in 0..MaxRes}

\* load_brave_api_key: the key, or <<>> where the code raises SystemExit
load_brave_api_key(env) == Strip(env)

\* brave_search: "exit" (SystemExit before the request is built), "raise" (the
\* request was sent and an exception leaves the function), or "ok" with the
\* number of records returned
brave_search(env, resp) ==
  IF load_brave_api_key(env) = <<>> THEN [status |-> "exit", sent |-> 0, count |-> 0]
  ELSE IF resp.kind = "http_error" THEN [status |-> "raise", sent |-> 1, count |-> 0]
  ELSE IF resp.kind \in {"url_error", "bad_json"} THEN [status |-> "raise", sent |-> 1, count |-> 0]
  ELSE [status |-> "ok", sent |-> 1, count |-> IF resp.web THEN resp.n ELSE 0]

\* published = str(pub) if isinstance(pub, (str, int, float)) else None
PublishedOf(pub) == IF pub.fmt \in {"none", "other"} THEN None ELSE pub

\* What lines 500-514 compute from a record alone
Prepare(title, url, host, desc, pub) ==
  [title     |-> title,
   url       |-> url,
   host      |-> host,
   desc      |-> desc,
   blocked   |-> is_blocked(host, title, desc),
   allowed   |-> is_allowed(host),
   published |-> PublishedOf(pub)]

\* ... once for each record of RawPool
Prepared ==
  [it \in RawPool |->
     Prepare(Strip(it.title), Strip(it.url), hostname_from_item(it),
             Strip(it.description), it.published)]

ScoreOf(p, cat, clock) == score_item(p.host, p.title, p.published, cat, clock)

\* score_item for each record of RawPool under each category, at the run's clock
Scored ==
  [it \in RawPool, cat \in {CATEGORY_QUERIES[k].cat : k \in 1..Len(CATEGORY_QUERIES)} |->
     ScoreOf(Prepared[it], cat, NowStart)]

\* The item of lines 516-518
NewsItem(p, cat, sc) ==
  [title       |-> p.title,
   url         |-> p.url,
   description |-> p.desc,
   hostname    |-> IF p.host = <<>> THEN UNKNOWN ELSE p.host,
   published   |-> p.published,
   category    |-> cat,
   score       |-> sc]

\* A variant of the loop body that marks the url of a discarded record seen
LoopBodyMarkingDiscarded(st, p, cat, sc) ==
  IF p.title = <<>> \/ p.url = <<>> THEN [st EXCEPT !.disp = "empty"]
  ELSE IF p.url \in st.seen THEN [st EXCEPT !.disp = "duplicate"]
  ELSE IF p.blocked THEN [st EXCEPT !.disp = "blocked", !.seen = @ \cup {p.url}]
  ELSE IF ~p.allowed THEN [st EXCEPT !.disp = "disallowed", !.seen = @ \cup {p.url}]
  ELSE [seen        |-> st.seen \cup {p.url},
        raw         |-> Append(st.raw, NewsItem(p, cat, sc)),
        score_calls |-> st.score_calls + 1,
        disp        |-> "admitted"]

\* A variant of the loop body without the test "url in seen"
LoopBodyWithoutSeen(st, p, cat, sc) ==
  IF p.title = <<>> \/ p.url = <<>> THEN [st EXCEPT !.disp = "empty"]
  ELSE IF p.blocked THEN [st EXCEPT !.disp = "blocked"]
  ELSE IF ~p.allowed THEN [st EXCEPT !.disp = "disallowed"]
  ELSE [seen        |-> st.seen \cup {p.url},
        raw         |-> Append(st.raw, NewsItem(p, cat, sc)),
        score_calls |-> st.score_calls + 1,
        disp        |-> IF p.url \in st.seen THEN "duplicate" ELSE "admitted"]

\* A variant of the loop body without the test "not is_allowed(host)"
LoopBodyWithoutAllow(st, p, cat, sc) ==
  IF p.title = <<>> \/ p.url = <<>> THEN [st EXCEPT !.disp = "empty"]
  ELSE IF p.url \in st.seen THEN [st EXCEPT !.disp = "duplicate"]
  ELSE IF p.blocked THEN [st EXCEPT !.disp = "blocked"]
  ELSE [seen        |-> st.seen \cup {p.url},
        raw         |-> Append(st.raw, NewsItem(p, cat, sc)),
        score_calls |-> st.score_calls + 1,
        disp        |-> IF p.allowed THEN "admitted" ELSE "disallowed"]

\* The body of "for it in res", lines 499-518, on st = [seen, raw, score_calls, disp],
\* p being the prepared record and sc the score score_item gives it
LoopBody(st, p, cat, sc) ==
  IF p.title = <<>> \/ p.url = <<>> THEN [st EXCEPT !.disp = "empty"]
  ELSE IF p.url \in st.seen THEN [st EXCEPT !.disp = "duplicate"]
  ELSE IF p.blocked THEN [st EXCEPT !.disp = "blocked"]
  ELSE IF ~p.allowed THEN [st EXCEPT !.disp = "disallowed"]
  ELSE [seen        |-> st.seen \cup {p.url},
        raw         |-> Append(st.raw, NewsItem(p, cat, sc)),
        score_calls |-> st.score_calls + 1,
        disp        |-> "admitted"]

\* The sort key of raw.sort: (x.score, parse_ts(x.published))
SortKey(x) == <<x.score, parse_ts(x.published)>>

\* tuple comparison a > b
KeyGreater(a, b) == a[1] > b[1] \/ (a[1] = b[1] /\ a[2] > b[2])

\* A variant that places the item ahead of the items of equal key
RECURSIVE InsertDescAhead(_, _)
InsertDescAhead(x, s) ==
  IF s = <<>> THEN <<x>>
  ELSE IF ~KeyGreater(SortKey(Head(s)), SortKey(x)) THEN <<x>> \o s
  ELSE <<Head(s)>> \o InsertDescAhead(x, Tail(s))

\* One item placed into a list already in descending key order, behind every item
\* whose key is not smaller
RECURSIVE InsertDesc(_, _)
InsertDesc(x, s) ==
  IF s = <<>> THEN <<x>>
  ELSE IF KeyGreater(SortKey(x), SortKey(Head(s))) THEN <<x>> \o s
  ELSE <<Head(s)>> \o InsertDesc(x, Tail(s))

\* raw.sort(key=..., reverse=True): descending by key; list.sort is stable, and with
\* reverse=True items of equal key still keep their original order
RECURSIVE SortDesc(_)
SortDesc(s) ==
  IF s = <<>> THEN <<>>
  ELSE InsertDesc(s[Len(s)], SortDesc(SubSeq(s, 1, Len(s) - 1)))

REDDIT_BASE == <<"h","t","t","p","s",":","/","/","w","w","w",".","r","e","d","d","i","t",".","c","o","m">>

\* the default of REDDIT_SUBREDDITS, line 525
DEFAULT_SUBREDDITS ==
  <<"L","o","c","a","l","L","L","a","M","A",",","M","a","c","h","i","n","e","L","e","a","r","n","i","n","g",",","O","p","e","n","A","I",",","A","I","_","A","g","e","n","t","s">>

\* Values of the environment variable REDDIT_SUBREDDITS (<<>>: unset or empty)
SubredditEnvs ==
  {
    <<" ","r","/","O","p","e","n","A","I"," ",","," ","r","u","s","t",",">>
  }

\* What one feed request can come to: "error" (network or HTTP error, or a body
\* that is no JSON), or a JSON object whose data.children are the given posts;
\* shape "other" is a child that is no JSON object
RedditResponses ==
  {
    [kind |-> "error", children |-> <<>>],
    [kind |-> "json", children |->
       << [shape |-> "dict", title |-> <<" ","H","o","t"," ">>, permalink |-> <<"/","r","/","a","/","1">>, score |-> 5, comments |-> 2],
          [shape |-> "dict", title |-> <<>>, permalink |-> <<"/","r","/","a","/","2">>, score |-> 1, comments |-> 0] >>],
    [kind |-> "json", children |->
       << [shape |-> "dict", title |-> <<"T","o","p">>, permalink |-> <<"/","r","/","a","/","3">>, score |-> 9, comments |-> 1],
          [shape |-> "other", title |-> <<>>, permalink |-> <<>>, score |-> 0, comments |-> 0] >>]
  }

-----------------------------------------------------------------------------
\* Secondary feed

\* s.split(",")
RECURSIVE Split(_, _)
Split(s, sep) ==
  LET i == FirstIndexOf(s, {sep})
  IN  IF i = 0 THEN <<s>>
      ELSE <<SubSeq(s, 1, i - 1)>> \o Split(SubSeq(s, i + 1, Len(s)), sep)

\* s.lstrip(chars): every leading character that is in chars is dropped
LStrip(s, chars) ==
  LET keep == {i \in 1..Len(s) : s[i] \notin chars}
  IN  IF keep = {} THEN <<>>
      ELSE SubSeq(s, CHOOSE i \in keep : \A j \in keep : i <= j, Len(s))

\* lines 525-526: the subreddit list of the environment value env
SubListOf(env) ==
  LET subs  == Strip(IF env = <<>> THEN DEFAULT_SUBREDDITS ELSE env)
      parts == SelectSeq(Split(subs, ","), LAMBDA s : Strip(s) # <<>>)
  IN  [k \in 1..Len(parts) |-> LStrip(Strip(parts[k]), {"r", "/"})]

\* the loop over children, lines 286-300: out grows until a child raises
RECURSIVE ParseChildren(_, _, _)
ParseChildren(subreddit, children, out) ==
  IF children = <<>> THEN [raised |-> FALSE, out |-> out]
  ELSE LET c == Head(children)
       IN  IF c.shape # "dict" THEN [raised |-> TRUE, out |-> out]
           ELSE LET title     == Strip(c.title)
                    permalink == Strip(c.permalink)
                IN  IF title = <<>> \/ permalink = <<>>
                      THEN ParseChildren(subreddit, Tail(children), out)
                      ELSE ParseChildren(subreddit, Tail(children),
                             Append(out, [subreddit |-> subreddit,
                                          title     |-> title,
                                          url       |-> REDDIT_BASE \o permalink,
                                          score     |-> c.score,
                                          comments  |-> c.comments]))

\* A variant that keeps the posts parsed before a child raised
reddit_fetch_partial(subreddit, resp) ==
  IF resp.kind = "error" THEN <<>>
  ELSE ParseChildren(subreddit, resp.children, <<>>).out

reddit_fetch(subreddit, resp) ==
  IF resp.kind = "error" THEN <<>>
  ELSE LET r == ParseChildren(subreddit, resp.children, <<>>)
       IN  IF r.raised THEN <<>> ELSE r.out

\* for s in sub_list[:8]
SUBREDDIT_LIMIT == 8

-----------------------------------------------------------------------------
\* Output

\* the "items" of the payload, lines 548-559
SnapshotItems(items) ==
  [k \in 1..Len(items) |->
     [title       |-> items[k].title,
      url         |-> items[k].url,
      description |-> items[k].description,
      host        |-> items[k].hostname,
      published   |-> items[k].published,
      category    |-> items[k].category,
      score       |-> Round3(items[k].score)]]

NoSnapshot ==
  [written |-> FALSE, queriesRun |-> 0, subreddits |-> <<>>, items |-> <<>>, reddit |-> <<>>]

\* the category sections of render_html, in their order, line 402
DISPLAY_ORDER == <<"release", "opensource", "funding", "research", "policy", "security">>

HIGHLIGHTS_LIMIT == 10

SECTION_LIMIT == 8

REDDIT_LIMIT == 10

\* by_cat, lines 365-367, as a function on the categories (absent key: <<>>)
RECURSIVE GroupByCat(_, _)
GroupByCat(items, by_cat) ==
  IF items = <<>> THEN by_cat
  ELSE LET it == Head(items)
       IN  GroupByCat(Tail(items),
                      [by_cat EXCEPT ![it.category] = Append(@, it)])

\* enumerate(lst, 1)
Cards(lst) == [k \in 1..Len(lst) |-> [idx |-> k, item |-> lst[k]]]

\* the loop over the categories, lines 402-412
RECURSIVE Sections(_, _)
Sections(order, by_cat) ==
  IF order = <<>> THEN <<>>
  ELSE LET cat == Head(order)
           lst == by_cat[cat]
       IN  IF lst = <<>> THEN Sections(Tail(order), by_cat)
           ELSE <<[cat   |-> cat,
                   count |-> Len(lst),
                   cards |-> Cards(Take(lst, SECTION_LIMIT))]>>
                \o Sections(Tail(order), by_cat)

Categories == {CATEGORY_QUERIES[k].cat : k \in 1..Len(CATEGORY_QUERIES)}

\* A variant that builds the sections from the highlights only
render_html_from_highlights(items, reddit_entries) ==
  LET by_cat == GroupByCat(Take(items, HIGHLIGHTS_LIMIT), [c \in Categories |-> <<>>])
  IN  [rendered   |-> TRUE,
       total      |-> Len(items),
       highlights |-> Cards(Take(items, HIGHLIGHTS_LIMIT)),
       sections   |-> Sections(DISPLAY_ORDER, by_cat),
       reddit     |-> Take(reddit_entries, REDDIT_LIMIT)]

\* render_html: the cards of the page, section by section
render_html(items, reddit_entries) ==
  LET by_cat == GroupByCat(items, [c \in Categories |-> <<>>])
  IN  [rendered   |-> TRUE,
       total      |-> Len(items),
       highlights |-> Cards(Take(items, HIGHLIGHTS_LIMIT)),
       sections   |-> Sections(DISPLAY_ORDER, by_cat),
       reddit     |-> Take(reddit_entries, REDDIT_LIMIT)]

NoPage ==
  [rendered |-> FALSE, total |-> 0, highlights |-> <<>>, sections |-> <<>>, reddit |-> <<>>]

-----------------------------------------------------------------------------
\* History of the records offered to the loop, kept for the properties

NoRecord ==
  [status |-> "none", title |-> <<>>, description |-> <<>>, published |-> None, category |-> ""]

\* what the prepared record p of a query of category cat would become as an item
AsOffered(p, cat) ==
  [status      |-> "admissible",
   title       |-> p.title,
   description |-> p.desc,
   published   |-> p.published,
   category    |-> cat]

\* the record passes the Host Classifier
Admissible(p) == ~p.blocked /\ p.allowed

NonEmpty(p) == p.title # <<>> /\ p.url # <<>>

\* first_ok, after the prepared record p of a query of category cat
FirstOkAfter(f, p, cat) ==
  IF NonEmpty(p) /\ Admissible(p) /\ f[p.url].status = "none"
    THEN [f EXCEPT ![p.url] = AsOffered(p, cat)]
    ELSE f

-----------------------------------------------------------------------------
\* Actions

NoArgs == [fn |-> "none"]

\* no record handled yet in the current response
NoLast == "none"

PipelineInit ==
  /\ qi = 1
  /\ remaining = 0
  /\ seen = {}
  /\ raw = <<>>
  /\ queries_run = 0
  /\ requests_sent = 0
  /\ score_calls = 0
  /\ last = NoLast
  /\ rejected = {}
  /\ first_ok = [u \in Urls |-> NoRecord]
  /\ ingested = <<>>
  /\ sub_list = <<>>
  /\ ri = 1
  /\ reddit = <<>>
  /\ fetch_log = <<>>
  /\ snapshot = NoSnapshot
  /\ page = NoPage

Init ==
  /\ pc = "query"
  /\ api_key \in ApiKeys
  /\ PipelineInit
  /\ fin = NoArgs
  /\ fout = NoArgs

\* res = brave_search(q, ...); queries_run += 1 (lines 497-498). SystemExit and
\* any exception leave main(), which catches neither.
Search ==
  /\ pc = "query"
  /\ \E resp \in BraveResponses :
       LET r == brave_search(api_key, resp)
       IN  /\ requests_sent' = requests_sent + r.sent
           /\ IF r.status = "exit"
                THEN pc' = "exit_config" /\ UNCHANGED <<queries_run, remaining>>
              ELSE IF r.status = "raise"
                THEN pc' = "crashed" /\ UNCHANGED <<queries_run, remaining>>
              ELSE /\ pc' = "records"
                   /\ queries_run' = queries_run + 1
                   /\ remaining' = r.count
  /\ UNCHANGED <<api_key, qi, seen, raw, score_calls, last, rejected, first_ok,
                 ingested, sub_list, ri, reddit, fetch_log, snapshot, page, fin, fout>>

\* the loop body has left st; p is the prepared record it handled
Handled(st, p, cat) ==
  /\ seen' = st.seen
  /\ raw' = st.raw
  /\ score_calls' = st.score_calls
  /\ last' = st.disp
  /\ rejected' = IF st.disp \in {"blocked", "disallowed"} THEN rejected \cup {p.url} ELSE rejected
  /\ first_ok' = FirstOkAfter(first_ok, p, cat)

\* one pass of "for it in res" (lines 499-518) on the next record of the response
ProcessRecord ==
  /\ pc = "records"
  /\ remaining > 0
  /\ \E it \in RawPool :
       Handled(LoopBody([seen |-> seen, raw |-> raw, score_calls |-> score_calls,
                         disp |-> last],
                        Prepared[it], QueryCat[qi], Scored[it, QueryCat[qi]]),
               Prepared[it], QueryCat[qi])
  /\ remaining' = remaining - 1
  /\ UNCHANGED <<pc, api_key, qi, queries_run, requests_sent, ingested, sub_list,
                 ri, reddit, fetch_log, snapshot, page, fin, fout>>

\* the response is used up: time.sleep(0.12), then the next query or the sort
NextQuery ==
  /\ pc = "records"
  /\ remaining = 0
  /\ qi' = qi + 1
  /\ pc' = IF qi = NumQueries THEN "sort" ELSE "query"
  /\ last' = NoLast
  /\ UNCHANGED <<api_key, remaining, seen, raw, queries_run, requests_sent,
                 score_calls, rejected, first_ok, ingested, sub_list, ri, reddit,
                 fetch_log, snapshot, page, fin, fout>>

\* raw.sort(...), line 522
Sort ==
  /\ pc = "sort"
  /\ ingested' = raw
  /\ raw' = SortDesc(raw)
  /\ pc' = "subs"
  /\ UNCHANGED <<api_key, qi, remaining, seen, queries_run, requests_sent,
                 score_calls, last, rejected, first_ok, sub_list, ri, reddit, fetch_log,
                 snapshot, page, fin, fout>>

\* lines 525-527
ReadSubreddits ==
  /\ pc = "subs"
  /\ \E env \in SubredditEnvs : sub_list' = SubListOf(env)
  /\ pc' = "reddit"
  /\ UNCHANGED <<api_key, qi, remaining, seen, raw, queries_run, requests_sent,
                 score_calls, last, rejected, first_ok, ingested, ri, reddit, fetch_log,
                 snapshot, page, fin, fout>>

\* reddit.extend(reddit_fetch(s, ...)) for the next s of sub_list[:8], lines 528-530
FetchReddit ==
  /\ pc = "reddit"
  /\ ri <= Len(Take(sub_list, SUBREDDIT_LIMIT))
  /\ \E resp \in RedditResponses :
       /\ reddit' = reddit \o reddit_fetch(sub_list[ri], resp)
       /\ fetch_log' = Append(fetch_log, resp)
  /\ ri' = ri + 1
  /\ UNCHANGED <<pc, api_key, qi, remaining, seen, raw, queries_run, requests_sent,
                 score_calls, last, rejected, first_ok, ingested, sub_list, snapshot, page,
                 fin, fout>>

\* lines 532-595: the payload is written, then the pages rendered from raw
Write ==
  /\ pc = "reddit"
  /\ ri > Len(Take(sub_list, SUBREDDIT_LIMIT))
  /\ snapshot' = [written    |-> TRUE,
                  queriesRun |-> queries_run,
                  subreddits |-> sub_list,
                  items      |-> SnapshotItems(raw),
                  reddit     |-> reddit]
  /\ page' = render_html(raw, reddit)
  /\ pc' = "done"
  /\ UNCHANGED <<api_key, qi, remaining, seen, raw, queries_run, requests_sent,
                 score_calls, last, rejected, first_ok, ingested, sub_list, ri, reddit,
                 fetch_log, fin, fout>>

Next ==
  \/ Search
  \/ ProcessRecord
  \/ NextQuery
  \/ Sort
  \/ ReadSubreddits
  \/ FetchReddit
  \/ Write

Spec == Init /\ [][Next]_vars

-----------------------------------------------------------------------------
\* Calls of the pure functions on arguments of their own

\* Hosts handed to score_item, each with the tier the source's sets give it
ScoreHosts ==
  {
    [host |-> <<"r","e","u","t","e","r","s",".","c","o","m">>, tier |-> 396],
    [host |-> <<"O","p","e","n","A","I",".","c","o","m">>, tier |-> 396],
    [host |-> <<"h","u","g","g","i","n","g","f","a","c","e",".","c","o">>, tier |-> 252],
    [host |-> <<"a","r","x","i","v",".","o","r","g">>, tier |-> 72],
    [host |-> <<"e","x","a","m","p","l","e",".","o","r","g">>, tier |-> 72],
    [host |-> <<>>, tier |-> 0]
  }

\* Titles handed to score_item, each with whether a reader finds a launch marker
\* and a security marker in it
ScoreTitles ==
  {
    [title |-> <<"P","r","o","d","u","c","t"," ","l","a","u","n","c","h">>, launch |-> TRUE,  security |-> FALSE],
    [title |-> <<"I","n","t","r","o","d","u","c","i","n","g"," ","X">>, launch |-> TRUE,  security |-> FALSE],
    [title |-> <<"D","a","t","a"," ","B","r","e","a","c","h">>, launch |-> FALSE, security |-> TRUE],
    [title |-> <<"B","E","T","A"," ","l","e","a","k">>, launch |-> TRUE,  security |-> TRUE],
    [title |-> <<"U","r","b","a","n"," ","l","i","f","e">>, launch |-> FALSE, security |-> TRUE],
    [title |-> <<"W","e","e","k","l","y"," ","n","e","w","s">>, launch |-> FALSE, security |-> FALSE],
    [title |-> <<>>, launch |-> FALSE, security |-> FALSE]
  }

\* Published values handed to score_item, each with its age in hours at the clock
\* NowStart (absent: no parsable timestamp)
ScorePublished ==
  {
    [published |-> None, parsable |-> FALSE, age |-> 0],
    [published |-> [fmt |-> "empty", hour |-> 0, tz |-> ""], parsable |-> FALSE, age |-> 0],
    [published |-> [fmt |-> "bad", hour |-> 0, tz |-> ""], parsable |-> FALSE, age |-> 0],
    [published |-> [fmt |-> "iso", hour |-> NowStart, tz |-> "Z"], parsable |-> TRUE, age |-> 0],
    [published |-> [fmt |-> "iso", hour |-> NowStart - 1, tz |-> "naive"], parsable |-> TRUE, age |-> 1],
    [published |-> [fmt |-> "iso", hour |-> NowStart - 32, tz |-> "+08:00"], parsable |-> TRUE, age |-> 40],
    [published |-> [fmt |-> "iso", hour |-> NowStart - 44, tz |-> "Z"], parsable |-> TRUE, age |-> 44],
    [published |-> [fmt |-> "iso", hour |-> NowStart + 5, tz |-> "Z"], parsable |-> TRUE, age |-> -5]
  }

ScoreInputs ==
  {[fn |-> "score_item", host |-> h, title |-> t, published |-> p, category |-> c] :
     h \in ScoreHosts, t \in ScoreTitles, p \in ScorePublished,
     c \in {CATEGORY_QUERIES[k].cat : k \in 1..Len(CATEGORY_QUERIES)}}

\* Hostnames handed to the classifier in their bare form
BareHosts ==
  {
    <<"r","e","u","t","e","r","s",".","c","o","m">>,
    <<"W","W","W",".","R","e","u","t","e","r","s",".","c","o","m">>,
    <<"b","l","o","g",".","g","o","o","g","l","e">>,
    <<"n","v","i","d","i","a",".","c","o","m">>,
    <<"N","V","I","D","I","A",".","c","o","m">>,
    <<"h","u","g","g","i","n","g","f","a","c","e",".","c","o">>,
    <<"a","r","x","i","v",".","o","r","g">>,
    <<"s","u","b","s","t","a","c","k",".","c","o","m">>,
    <<"y","o","u","t","u","b","e",".","c","o","m">>,
    <<"y","o","u","t","u",".","b","e">>,
    <<"Y","o","u","t","u",".","b","e">>,
    <<"n","e","w","s",".","y","c","o","m","b","i","n","a","t","o","r",".","c","o","m">>,
    <<"r","e","d","d","i","t",".","c","o","m">>,
    <<"e","x","a","m","p","l","e",".","o","r","g">>,
    <<"g","i","t","h","u","b",".","c","o","m">>,
    <<"p","r","o","d","u","c","t","h","u","n","t",".","c","o","m">>,
    <<>>
  }

HostTexts ==
  {
    [title |-> <<"L","a","u","n","c","h">>, desc |-> <<>>],
    [title |-> <<"N","e","w","s">>, desc |-> <<"a"," ","P","r","e","s","s"," ","R","e","l","e","a","s","e">>],
    [title |-> <<"S","P","O","N","S","O","R","E","D">>, desc |-> <<"d">>],
    [title |-> <<"W","i","k","i">>, desc |-> <<"p","e","d","i","a">>]
  }

HostInputs ==
  {[fn |-> "classify", host |-> h, title |-> t.title, desc |-> t.desc] :
     h \in BareHosts, t \in HostTexts}

\* the most items a list handed to render_html holds
MaxRenderItems == 11

RenderCats == {"release", "funding"}

ITEM_TAGS == <<"a","b","c","d","e","f","g","h","i","j","k","l","m","n">>

\* a ranked list: distinct urls, equal scores, the k-th item of category cats[k]
RenderItems(cats) ==
  [k \in 1..Len(cats) |->
     [title       |-> <<"B","e","t","a">>,
      url         |-> Append(URL_GITHUB, ITEM_TAGS[k]),
      description |-> <<>>,
      hostname    |-> <<"g","i","t","h","u","b",".","c","o","m">>,
      published   |-> None,
      category    |-> cats[k],
      score       |-> 360]]

RenderCatLists == UNION {[1..n -> RenderCats] : n \in 0..MaxRenderItems}

RenderInputs ==
  {[fn |-> "render_html", items |-> RenderItems(cats), reddit |-> <<>>] : cats \in RenderCatLists}

WithWww(host) == WWW_DOT \o host

CallInit ==
  /\ pc = "call"
  /\ api_key = <<"k","1">>
  /\ PipelineInit
  /\ fin \in ScoreInputs \cup HostInputs \cup RenderInputs
  /\ fout = NoArgs

\* score_item(host, title, published, category) at the clock NowStart
ScoreCall ==
  /\ pc = "call"
  /\ fin.fn = "score_item"
  /\ fout' = [score |-> score_item(fin.host.host, fin.title.title, fin.published.published,
                                   fin.category, NowStart)]
  /\ pc' = "returned"
  /\ UNCHANGED <<api_key, qi, remaining, seen, raw, queries_run, requests_sent,
                 score_calls, last, rejected, first_ok, ingested, sub_list, ri, reddit,
                 fetch_log, snapshot, page, fin>>

\* is_blocked and is_allowed on a host and on its www form
ClassifyCall ==
  /\ pc = "call"
  /\ fin.fn = "classify"
  /\ fout' = [blocked     |-> is_blocked(fin.host, fin.title, fin.desc),
              allowed     |-> is_allowed(fin.host),
              www_blocked |-> is_blocked(WithWww(fin.host), fin.title, fin.desc),
              www_allowed |-> is_allowed(WithWww(fin.host))]
  /\ pc' = "returned"
  /\ UNCHANGED <<api_key, qi, remaining, seen, raw, queries_run, requests_sent,
                 score_calls, last, rejected, first_ok, ingested, sub_list, ri, reddit,
                 fetch_log, snapshot, page, fin>>

\* render_html(items, reddit)
RenderCall ==
  /\ pc = "call"
  /\ fin.fn = "render_html"
  /\ fout' = render_html(fin.items, fin.reddit)
  /\ pc' = "returned"
  /\ UNCHANGED <<api_key, qi, remaining, seen, raw, queries_run, requests_sent,
                 score_calls, last, rejected, first_ok, ingested, sub_list, ri, reddit,
                 fetch_log, snapshot, page, fin>>

CallNext ==
  \/ ScoreCall
  \/ ClassifyCall
  \/ RenderCall

CallSpec == CallInit /\ [][CallNext]_vars

-----------------------------------------------------------------------------
\* Properties of the ingestion loop

\* the positions of the list items whose url is u
ItemsWithUrl(items, u) == {k \in 1..Len(items) : items[k].url = u}

\* the item x carries what the offered record f carried
CarriesRecord(x, f) ==
  /\ x.title = f.title
  /\ x.description = f.description
  /\ x.published = f.published
  /\ x.category = f.category

\* the url u has exactly one item, made from the record f
OneItemFrom(items, at, f) ==
  /\ Cardinality(at) = 1
  /\ \A k \in at : CarriesRecord(items[k], f)

C2_FailureNotFatal ==
  pc # "crashed"

NoTwoShareUrl(items) ==
  \A i, j \in 1..Len(items) : i # j => items[i].url # items[j].url

\* C3: no two items of the candidate list, in the loop or in the snapshot that is
\* written, have the same url.
C3_UniqueUrls ==
  /\ NoTwoShareUrl(raw)
  /\ NoTwoShareUrl(snapshot.items)

\* a record was skipped because its url was seen, with two items in the list
C3_Witness ==
  /\ last = "duplicate"
  /\ Len(raw) >= 2

WithoutWww(h) == IF StartsWith(h, WWW_DOT) THEN SubSeq(h, 5, Len(h)) ELSE h

\* the host h, title and description pass the Host Classifier as the specification
\* words it
PassesClassifier(h, title, desc) ==
  /\ h \in AllowSet \/ WithoutWww(h) \in AllowSet
  /\ h \notin BLOCK_HOSTS
  /\ \A k \in 1..Len(SPAM_MARKERS) : ~Contains(Lower(title \o <<" ">> \o desc), SPAM_MARKERS[k])

\* the (hostname, title, description) triples of the pool that pass the classifier
CleanTriples ==
  {t \in {<<Prepared[it].host, Prepared[it].title, Prepared[it].desc>> : it \in RawPool} :
     PassesClassifier(Lower(t[1]), t[2], t[3])}

AllClean(items, hostfield) ==
  \A k \in 1..Len(items) :
    <<items[k][hostfield], items[k].title, items[k].description>> \in CleanTriples

\* C4: every item of the candidate list and of the snapshot has a hostname in the
\* allow set and not in the blocklist and no spam marker in title+description, and
\* score_item has been called for the admitted records only.
C4_OnlyCleanItems ==
  /\ AllClean(raw, "hostname")
  /\ AllClean(snapshot.items, "host")
  /\ score_calls = Len(raw)

\* a snapshot with items was written in a run that discarded a record
C4_Witness ==
  /\ snapshot.written
  /\ snapshot.items # <<>>
  /\ rejected # {}

\* the position in the ingestion order of the item with url u
IngestedAt(u) == CHOOSE k \in 1..Len(ingested) : ingested[k].url = u

\* a may stand before b in the ranked list
MayPrecede(a, b) ==
  \/ a.score > b.score
  \/ a.score = b.score /\ parse_ts(a.published) > parse_ts(b.published)
  \/ /\ a.score = b.score
     /\ parse_ts(a.published) = parse_ts(b.published)
     /\ IngestedAt(a.url) < IngestedAt(b.url)

SameOrder(out, items) ==
  /\ Len(out) = Len(items)
  /\ \A k \in 1..Len(items) : out[k].url = items[k].url /\ out[k].score = Round3(items[k].score)

\* C5: once sorted, the candidate list holds the ingested items, each before every
\* item of smaller score, of equal score and older timestamp, or of equal score and
\* timestamp and later ingestion; the snapshot lists the items in that order.
C5_StableRanking ==
  pc \in {"subs", "reddit", "done"} =>
    /\ Len(raw) = Len(ingested)
    /\ {raw[k] : k \in 1..Len(raw)} = {ingested[k] : k \in 1..Len(ingested)}
    /\ \A i, j \in 1..Len(raw) : i < j => MayPrecede(raw[i], raw[j])
    /\ snapshot.written => SameOrder(snapshot.items, raw)

\* a snapshot whose ranking moved an item forward and kept a tie in ingestion order
C5_Witness ==
  /\ snapshot.written
  /\ raw # ingested
  /\ \E i, j \in 1..Len(raw) :
       /\ i < j
       /\ raw[i].score = raw[j].score
       /\ parse_ts(raw[i].published) = parse_ts(raw[j].published)

\* C8, as the specification states it: a run that has ended either ran every query
\* of the catalog and wrote the snapshot, or stopped on the missing credential with
\* no request sent and no snapshot.
C8_TwoOutcomes ==
  pc \in {"done", "exit_config", "crashed"} =>
    \/ pc = "done" /\ snapshot.written /\ snapshot.queriesRun = NumQueries
    \/ pc = "exit_config" /\ requests_sent = 0 /\ ~snapshot.written

\* the response yields no entry: the request failed or a child is no object
FailedFetch(resp) ==
  \/ resp.kind = "error"
  \/ \E i \in 1..Len(resp.children) : resp.children[i].shape # "dict"

HasTitleAndLink(c) == Strip(c.title) # <<>> /\ Strip(c.permalink) # <<>>

\* the titles a source contributes, given its response
TitlesOf(resp) ==
  IF FailedFetch(resp) THEN <<>>
  ELSE LET posts == SelectSeq(resp.children, HasTitleAndLink)
       IN  [k \in 1..Len(posts) |-> Strip(posts[k].title)]

\* <<source, title>> of the entries the first n fetches contribute
RECURSIVE EntriesOfLog(_, _, _)
EntriesOfLog(log, subs, n) ==
  IF n = 0 THEN <<>>
  ELSE EntriesOfLog(log, subs, n - 1)
       \o [k \in 1..Len(TitlesOf(log[n])) |-> <<subs[n], TitlesOf(log[n])[k]>>]

\* C10: the feed entries are those of the sources fetched so far, none for a source
\* whose fetch failed and all of those of every other source; the ranked list stays
\* what the sort made it; at the end every source of the list was fetched and the
\* snapshot holds the entries.
C10_FeedFailureIsolated ==
  pc \in {"reddit", "done"} =>
    /\ Len(fetch_log) = ri - 1
    /\ [k \in 1..Len(reddit) |-> <<reddit[k].subreddit, reddit[k].title>>]
         = EntriesOfLog(fetch_log, sub_list, Len(fetch_log))
    /\ raw = SortDesc(ingested)
    /\ pc = "done" =>
         /\ Len(fetch_log) = Min(Len(sub_list), SUBREDDIT_LIMIT)
         /\ snapshot.written
         /\ snapshot.reddit = reddit
         /\ SameOrder(snapshot.items, raw)

\* a run has ended whose first source failed while a child was read and whose
\* second source gave an entry
C10_Witness ==
  /\ pc = "done"
  /\ Len(fetch_log) = 2
  /\ FailedFetch(fetch_log[1])
  /\ fetch_log[1].kind = "json"
  /\ ~FailedFetch(fetch_log[2])
  /\ Len(snapshot.reddit) = 1

-----------------------------------------------------------------------------
\* Properties of single calls

\* the recency bonus of an item of the given age in hours, absent when the
\* published value gives no timestamp
ExpectedRecency(p) ==
  IF ~p.parsable THEN 0
  ELSE IF p.age <= 0 THEN 216
  ELSE IF 5 * p.age >= 216 THEN 0
  ELSE 216 - 5 * p.age

\* the sum of the terms, each applied on its own
ExpectedScore(in) ==
  in.host.tier
  + (IF in.category \in {"release", "opensource"} THEN 180 ELSE 0)
  + (IF in.title.launch THEN 108 ELSE 0)
  + (IF in.title.security THEN 63 ELSE 0)
  + ExpectedRecency(in.published)

Published40hAgo == [fmt |-> "iso", hour |-> NowStart - 40, tz |-> "Z"]

C7_WwwInsensitive ==
  (pc = "returned" /\ fin.fn = "classify") =>
    /\ fout.blocked = fout.www_blocked
    /\ fout.allowed = fout.www_allowed

\* the positions of the list up to k whose item has the category of item k
SameCategoryUpTo(items, k) == {j \in 1..k : items[j].category = items[k].category}

\* the rank of item k among the items of its own category
RankInCategory(items, k) == Cardinality(SameCategoryUpTo(items, k))

\* the places <<section, card>> of the page that show the item x
PlacesOf(sections, x) ==
  {pl \in UNION {{<<s, c>> : c \in 1..Len(sections[s].cards)} : s \in 1..Len(sections)} :
     sections[pl[1]].cards[pl[2]].item = x}

\* the place of x is the card `rank` of the section of its category
AtRank(sections, places, x, rank) ==
  /\ Cardinality(places) = 1
  /\ \A pl \in places : pl[2] = rank /\ sections[pl[1]].cat = x.category

ShownByRank(items, sections, k) ==
  IF RankInCategory(items, k) <= SECTION_LIMIT
    THEN AtRank(sections, PlacesOf(sections, items[k]), items[k], RankInCategory(items, k))
    ELSE PlacesOf(sections, items[k]) = {}

\* the position of the category in the order of the sections
OrderOf(cat) == CHOOSE k \in 1..Len(DISPLAY_ORDER) : DISPLAY_ORDER[k] = cat

SectionsWellFormed(items, sections) ==
  /\ \A s \in 1..Len(sections) :
       /\ Len(sections[s].cards) <= SECTION_LIMIT
       /\ \A c \in 1..Len(sections[s].cards) :
            /\ sections[s].cards[c].item.category = sections[s].cat
            /\ sections[s].cards[c].idx = c
  /\ \A s, t \in 1..Len(sections) : s < t => OrderOf(sections[s].cat) < OrderOf(sections[t].cat)
  /\ {sections[s].cat : s \in 1..Len(sections)} = {items[k].category : k \in 1..Len(items)}

\* C9: every card of a section has the section's category; the sections follow
\* the fixed order and exist for the non-empty categories only; an item is shown
\* exactly when its rank among the items of its category is at most 8, and then as
\* the card of that rank, whatever the other categories hold and wherever the
\* highlights end.
C9_SectionsByCategoryRank ==
  (pc = "returned" /\ fin.fn = "render_html") =>
    /\ SectionsWellFormed(fin.items, fout.sections)
    /\ \A k \in 1..Len(fin.items) : ShownByRank(fin.items, fout.sections, k)

\* a page shows an item ranked behind the ten highlights and leaves out an item
\* ranked ninth in its category
C9_Witness ==
  /\ pc = "returned"
  /\ fin.fn = "render_html"
  /\ \E k \in 1..Len(fin.items) :
       /\ k > HIGHLIGHTS_LIMIT
       /\ PlacesOf(fout.sections, fin.items[k]) # {}
  /\ \E k \in 1..Len(fin.items) :
       /\ RankInCategory(fin.items, k) > SECTION_LIMIT
       /\ PlacesOf(fout.sections, fin.items[k]) = {}

-----------------------------------------------------------------------------
\* Host tier of the admitted items

\* the bare or the www form of the lower-cased host h is in the set
InEitherForm(h, hosts) ==
  \/ h \in hosts
  \/ WithoutWww(h) \in hosts
  \/ WWW_DOT \o h \in hosts

\* the tier of the lower-cased host h under the matching of the Host Classifier
ClassifierTier(h) ==
  IF InEitherForm(h, PREFERRED_HOSTS) THEN 396
  ELSE IF InEitherForm(h, COMMUNITY_HOSTS) THEN 252
  ELSE IF InEitherForm(h, EXTRA_ALLOW_HOSTS) THEN 72
  ELSE 0

\* the terms of the score of item x other than the host tier, at the clock NowStart
OtherTerms(x) ==
  AddRecency(
    AddSecurityBoost(
      AddLaunchBoost(AddCategoryBoost(0, x.category), Lower(x.title)),
      Lower(x.title)),
    parse_ts(x.published), NowStart)

\* C11, as the specification states it: the host-tier term of the score of every
\* admitted item is the tier its host has under the case-insensitive and
\* www-insensitive matching of the Host Classifier (2.2 preferred, 1.4 community,
\* 0.4 allowed-other), and is never 0.
C11_TierAgreesWithClassifier ==
  \A k \in 1..Len(raw) :
    /\ raw[k].score - OtherTerms(raw[k]) = ClassifierTier(Lower(raw[k].hostname))
    /\ raw[k].score - OtherTerms(raw[k]) > 0

====
